---- MODULE Spec2Model ----
(***************************************************************************)
(* Blank-line "paragraphing" between statements (statement-sequence.js)    *)
(* and Stroustrup-style placement of catch/finally (try-statement.js).     *)
(*                                                                         *)
(* Three specifications share the variables of this module:                *)
(*   Spec      the loop of printStatementSequence over one statement list  *)
(*   SpecRule  shouldEnforceBlankLineBetween applied to one pair           *)
(*   SpecTry   printTryStatement / printCatchClause applied to one node    *)
(***************************************************************************)
EXTENDS Naturals, Sequences, FiniteSets

VARIABLES
  \* printStatementSequence
  body,        \* node[property]: the unfiltered statement list
  lineEmpty,   \* isNextLineEmpty(node, options) for the node at each position
  pc,          \* "each" while path.each iterates, "done" after the return
  pos,         \* position of path.each in the unfiltered list (1-based)
  index,       \* the loop's `index` counter (0-based, as in the source)
  parts,       \* the Doc array built so far
  calls,       \* positions for which print() has been called, in call order
  \* shouldEnforceBlankLineBetween
  pairCurrent, \* argument `current`
  pairNext,    \* argument `next`
  pcRule,      \* "call" before the call, "returned" after it
  enforce,     \* the returned boolean
  \* printTryStatement / printCatchClause
  tryNode,     \* the TryStatement node
  pcTry,       \* "call" before the call, "returned" after it
  tryDoc       \* the returned Doc, flattened to its leaves in print order

vars == <<body, lineEmpty, pc, pos, index, parts, calls,
          pairCurrent, pairNext, pcRule, enforce,
          tryNode, pcTry, tryDoc>>

seqVars  == <<body, lineEmpty, pc, pos, index, parts, calls>>
ruleVars == <<pairCurrent, pairNext, pcRule, enforce>>
tryVars  == <<tryNode, pcTry, tryDoc>>

-----------------------------------------------------------------------------
(* Bounds *)

\* longest statement list
MaxLen == 3
\* most declarators in one VariableDeclaration
MaxDecls == 2
\* most comments attached to a catch parameter
MaxComments == 2

-----------------------------------------------------------------------------
(* AST nodes *)

ImportExportTypes ==
  {"ImportDeclaration", "ExportNamedDeclaration", "ExportDefaultDeclaration",
   "ExportAllDeclaration", "DeclareExportDeclaration",
   "DeclareExportAllDeclaration"}

TopLevelDeclarationTypes ==
  {"FunctionDeclaration", "ClassDeclaration", "TSInterfaceDeclaration",
   "TSTypeAliasDeclaration", "TSEnumDeclaration", "TSModuleDeclaration",
   "DeclareClass", "DeclareFunction", "DeclareInterface", "DeclareTypeAlias",
   "DeclareModule", "InterfaceDeclaration", "TypeAlias", "EnumDeclaration",
   "ComponentDeclaration", "HookDeclaration"}

BlockStatementTypes ==
  {"IfStatement", "ForStatement", "ForInStatement", "ForOfStatement",
   "WhileStatement", "DoWhileStatement", "TryStatement", "SwitchStatement",
   "WithStatement", "BlockStatement", "LabeledStatement"}

\* statement kinds none of the classification helpers names
OtherTypes == {"ExpressionStatement", "ThrowStatement", "BreakStatement"}

DeclarationKinds == {"const", "let", "var"}

\* a VariableDeclarator: the type of its id and of its init ("null": no init)
Declarator(id, init) == [id |-> id, init |-> init]

Declarators ==
  {Declarator("Identifier", "null"),
   Declarator("Identifier", "Literal"),
   Declarator("Identifier", "FunctionExpression"),
   Declarator("Identifier", "ArrowFunctionExpression"),
   Declarator("ObjectPattern", "Literal"),
   Declarator("ArrayPattern", "Literal")}

\* a statement node without declarators
Node(type) == [type |-> type, kind |-> "none", declarations |-> <<>>]

VariableDeclaration(kind, declarations) ==
  [type |-> "VariableDeclaration", kind |-> kind, declarations |-> declarations]

DeclaratorLists == UNION {[1..n -> Declarators] : n \in 1..MaxDecls}

VariableDeclarations ==
  {VariableDeclaration(k, ds) : k \in DeclarationKinds, ds \in DeclaratorLists}

\* every statement that reaches shouldEnforceBlankLineBetween
AllStatements ==
  {Node(t) : t \in ImportExportTypes \cup TopLevelDeclarationTypes
                   \cup BlockStatementTypes \cup OtherTypes
                   \cup {"ReturnStatement"}}
  \cup VariableDeclarations

-----------------------------------------------------------------------------
(* Statement classification helpers *)

\* mutant: the list of import/export types lacks ExportAllDeclaration
isImportOrExport_MissingExportAll(node) ==
  \/ node.type = "ImportDeclaration"
  \/ node.type = "ExportNamedDeclaration"
  \/ node.type = "ExportDefaultDeclaration"
  \/ node.type = "DeclareExportDeclaration"
  \/ node.type = "DeclareExportAllDeclaration"

isImportOrExport(node) ==
  \/ node.type = "ImportDeclaration"
  \/ node.type = "ExportNamedDeclaration"
  \/ node.type = "ExportDefaultDeclaration"
  \/ node.type = "ExportAllDeclaration"
  \/ node.type = "DeclareExportDeclaration"
  \/ node.type = "DeclareExportAllDeclaration"

isTopLevelDeclaration(node) ==
  \/ node.type = "FunctionDeclaration"
  \/ node.type = "ClassDeclaration"
  \/ node.type = "TSInterfaceDeclaration"
  \/ node.type = "TSTypeAliasDeclaration"
  \/ node.type = "TSEnumDeclaration"
  \/ node.type = "TSModuleDeclaration"
  \/ node.type = "DeclareClass"
  \/ node.type = "DeclareFunction"
  \/ node.type = "DeclareInterface"
  \/ node.type = "DeclareTypeAlias"
  \/ node.type = "DeclareModule"
  \/ node.type = "InterfaceDeclaration"
  \/ node.type = "TypeAlias"
  \/ node.type = "EnumDeclaration"
  \/ node.type = "ComponentDeclaration"
  \/ node.type = "HookDeclaration"

isVariableDeclaration(node) == node.type = "VariableDeclaration"

isDestructuringDeclaration(node) ==
  IF ~isVariableDeclaration(node)
    THEN FALSE
    ELSE \E i \in 1..Len(node.declarations) :
           LET decl == node.declarations[i]
           IN  \/ decl.id = "ObjectPattern"
               \/ decl.id = "ArrayPattern"

getDeclarationKind(node) ==
  IF ~isVariableDeclaration(node) THEN "null" ELSE node.kind

isBlockStatement(node) ==
  \/ node.type = "IfStatement"
  \/ node.type = "ForStatement"
  \/ node.type = "ForInStatement"
  \/ node.type = "ForOfStatement"
  \/ node.type = "WhileStatement"
  \/ node.type = "DoWhileStatement"
  \/ node.type = "TryStatement"
  \/ node.type = "SwitchStatement"
  \/ node.type = "WithStatement"
  \/ node.type = "BlockStatement"
  \/ node.type = "LabeledStatement"

isReturnLikeStatement(node) == node.type = "ReturnStatement"

\* declarations.some(decl => decl.init && (FunctionExpression || Arrow...))
someFunctionInit(declarations) ==
  \E i \in 1..Len(declarations) :
    LET decl == declarations[i]
    IN  /\ decl.init # "null"
        /\ \/ decl.init = "FunctionExpression"
           \/ decl.init = "ArrowFunctionExpression"

\* mutant: a function-valued variable declaration is not a paragraph
isParagraphStatement_NoFunctionInit(node) ==
  \/ isTopLevelDeclaration(node)
  \/ isBlockStatement(node)

isParagraphStatement(node) ==
  \/ isTopLevelDeclaration(node)
  \/ isBlockStatement(node)
  \/ /\ node.type = "VariableDeclaration"
     /\ someFunctionInit(node.declarations)

\* mutant: the declaration kinds are not compared
areInSameDeclarationBlock_IgnoresKind(current, next) ==
  IF ~isVariableDeclaration(current) \/ ~isVariableDeclaration(next)
    THEN FALSE
  ELSE IF isDestructuringDeclaration(current) \/ isDestructuringDeclaration(next)
    THEN FALSE
  ELSE ~(someFunctionInit(current.declarations)
         \/ someFunctionInit(next.declarations))

areInSameDeclarationBlock(current, next) ==
  IF ~isVariableDeclaration(current) \/ ~isVariableDeclaration(next)
    THEN FALSE
  ELSE IF isDestructuringDeclaration(current) \/ isDestructuringDeclaration(next)
    THEN FALSE
  ELSE IF getDeclarationKind(current) # getDeclarationKind(next)
    THEN FALSE
  ELSE LET currentHasFunction == someFunctionInit(current.declarations)
           nextHasFunction == someFunctionInit(next.declarations)
       IN  IF currentHasFunction \/ nextHasFunction THEN FALSE ELSE TRUE

-----------------------------------------------------------------------------
(* Blank line enforcement logic *)

\* mutant: the "not before return" exception of the fourth branch is missing
shouldEnforceBlankLineBetween_NoReturnException(current, next) ==
  IF isImportOrExport(current) /\ ~isImportOrExport(next)
    THEN TRUE
  ELSE IF isImportOrExport(current) /\ isImportOrExport(next)
    THEN FALSE
  ELSE IF areInSameDeclarationBlock(current, next)
    THEN FALSE
  ELSE IF /\ isVariableDeclaration(current)
          /\ ~areInSameDeclarationBlock(current, next)
    THEN TRUE
  ELSE IF /\ isVariableDeclaration(next)
          /\ ~isVariableDeclaration(current)
          /\ ~isImportOrExport(current)
    THEN TRUE
  ELSE isParagraphStatement(current) \/ isParagraphStatement(next)

\* mutant: the paragraph branch looks at current only
shouldEnforceBlankLineBetween_ParagraphCurrentOnly(current, next) ==
  IF isImportOrExport(current) /\ ~isImportOrExport(next)
    THEN TRUE
  ELSE IF isImportOrExport(current) /\ isImportOrExport(next)
    THEN FALSE
  ELSE IF areInSameDeclarationBlock(current, next)
    THEN FALSE
  ELSE IF /\ isVariableDeclaration(current)
          /\ ~areInSameDeclarationBlock(current, next)
          /\ ~isReturnLikeStatement(next)
    THEN TRUE
  ELSE IF /\ isVariableDeclaration(next)
          /\ ~isVariableDeclaration(current)
          /\ ~isImportOrExport(current)
    THEN TRUE
  ELSE IF isParagraphStatement(current)
    THEN TRUE
  ELSE IF isReturnLikeStatement(next) /\ isParagraphStatement(current)
    THEN TRUE
  ELSE IF isReturnLikeStatement(next) /\ isBlockStatement(current)
    THEN TRUE
  ELSE FALSE

\* mutant: the last branch asks only for a return, whatever precedes it
shouldEnforceBlankLineBetween_BlankBeforeReturn(current, next) ==
  IF isImportOrExport(current) /\ ~isImportOrExport(next)
    THEN TRUE
  ELSE IF isImportOrExport(current) /\ isImportOrExport(next)
    THEN FALSE
  ELSE IF areInSameDeclarationBlock(current, next)
    THEN FALSE
  ELSE IF /\ isVariableDeclaration(current)
          /\ ~areInSameDeclarationBlock(current, next)
          /\ ~isReturnLikeStatement(next)
    THEN TRUE
  ELSE IF /\ isVariableDeclaration(next)
          /\ ~isVariableDeclaration(current)
          /\ ~isImportOrExport(current)
    THEN TRUE
  ELSE IF isParagraphStatement(current) \/ isParagraphStatement(next)
    THEN TRUE
  ELSE IF isReturnLikeStatement(next) /\ isParagraphStatement(current)
    THEN TRUE
  ELSE IF isReturnLikeStatement(next)
    THEN TRUE
  ELSE FALSE

shouldEnforceBlankLineBetween(current, next) ==
  IF isImportOrExport(current) /\ ~isImportOrExport(next)
    THEN TRUE
  ELSE IF isImportOrExport(current) /\ isImportOrExport(next)
    THEN FALSE
  ELSE IF areInSameDeclarationBlock(current, next)
    THEN FALSE
  ELSE IF /\ isVariableDeclaration(current)
          /\ ~areInSameDeclarationBlock(current, next)
          /\ ~isReturnLikeStatement(next)
    THEN TRUE
  ELSE IF /\ isVariableDeclaration(next)
          /\ ~isVariableDeclaration(current)
          /\ ~isImportOrExport(current)
    THEN TRUE
  ELSE IF isParagraphStatement(current) \/ isParagraphStatement(next)
    THEN TRUE
  ELSE IF isReturnLikeStatement(next) /\ isParagraphStatement(current)
    THEN TRUE
  ELSE IF isReturnLikeStatement(next) /\ isBlockStatement(current)
    THEN TRUE
  ELSE FALSE

\* the `if` of shouldEnforceBlankLineBetween whose return statement is
\* executed, counted from the top; 0 for the final `return false`
decidingBranch(current, next) ==
  IF isImportOrExport(current) /\ ~isImportOrExport(next)
    THEN 1
  ELSE IF isImportOrExport(current) /\ isImportOrExport(next)
    THEN 2
  ELSE IF areInSameDeclarationBlock(current, next)
    THEN 3
  ELSE IF /\ isVariableDeclaration(current)
          /\ ~areInSameDeclarationBlock(current, next)
          /\ ~isReturnLikeStatement(next)
    THEN 4
  ELSE IF /\ isVariableDeclaration(next)
          /\ ~isVariableDeclaration(current)
          /\ ~isImportOrExport(current)
    THEN 5
  ELSE IF isParagraphStatement(current) \/ isParagraphStatement(next)
    THEN 6
  ELSE IF isReturnLikeStatement(next) /\ isParagraphStatement(current)
    THEN 7
  ELSE IF isReturnLikeStatement(next) /\ isBlockStatement(current)
    THEN 8
  ELSE 0

-----------------------------------------------------------------------------
(* printStatementSequence *)

\* the statement lists the loop is run on
SequenceStatements ==
  {Node("EmptyStatement"),
   Node("ImportDeclaration"),
   Node("FunctionDeclaration"),
   Node("IfStatement"),
   Node("ReturnStatement"),
   Node("ExpressionStatement"),
   VariableDeclaration("const", <<Declarator("Identifier", "Literal")>>),
   VariableDeclaration("let", <<Declarator("Identifier", "Literal")>>),
   VariableDeclaration("const", <<Declarator("Identifier", "ArrowFunctionExpression")>>)}

\* the Doc builder `hardline`
hardline == [doc |-> "hardline"]

\* print(): the Doc the per-statement renderer returns for the node
print(node) == [doc |-> "print", node |-> node]

\* mutant: the list is not filtered, EmptyStatement nodes stay in it
statements_Unfiltered(b) == [p \in 1..Len(b) |-> p]

\* A node is identified by its position in node[property]; 0 is `undefined`.
\* node[property].filter(statement => statement.type !== "EmptyStatement")
statements(b) ==
  SelectSeq([p \in 1..Len(b) |-> p], LAMBDA p : b[p].type # "EmptyStatement")

\* mutant: the last node of node[property], Empty or not
lastStatement_Unfiltered(b) == Len(b)

\* statements.at(-1)
lastStatement(b) ==
  IF Len(statements(b)) = 0 THEN 0 ELSE statements(b)[Len(statements(b))]

\* statements[index + 1], with the source's 0-based index
nextNode(b, idx) ==
  IF idx + 2 <= Len(statements(b)) THEN statements(b)[idx + 2] ELSE 0

\* mutant: the blank line is looked up after the following node
hasBlankLineInSource_AfterNext(le, p) == p + 1 <= Len(le) /\ le[p + 1]

\* isNextLineEmpty(currentNode, options)
hasBlankLineInSource(le, p) == le[p]

\* nextNode && shouldEnforceBlankLineBetween(currentNode, nextNode)
shouldEnforceBlank(b, p, idx) ==
  /\ nextNode(b, idx) # 0
  /\ shouldEnforceBlankLineBetween(b[p], b[nextNode(b, idx)])

\* mutant: a source blank line and an enforced one each push a hardline
separator_NoCollapse(b, le, p, idx) ==
  IF p # lastStatement(b)
    THEN <<hardline>> \o
         (IF hasBlankLineInSource(le, p) THEN <<hardline>> ELSE <<>>) \o
         (IF shouldEnforceBlank(b, p, idx) THEN <<hardline>> ELSE <<>>)
    ELSE <<>>

\* mutant: the blank line is looked up after the node that directly precedes
\* nextNode in the unfiltered list
separator_GapOfUnfilteredPredecessor(b, le, p, idx) ==
  IF p # lastStatement(b)
    THEN <<hardline>> \o
         (IF \/ (nextNode(b, idx) # 0 /\ le[nextNode(b, idx) - 1])
             \/ shouldEnforceBlank(b, p, idx)
            THEN <<hardline>>
            ELSE <<>>)
    ELSE <<>>

\* what the `if (currentNode !== lastStatement)` block pushes
separator(b, le, p, idx) ==
  IF p # lastStatement(b)
    THEN <<hardline>> \o
         (IF hasBlankLineInSource(le, p) \/ shouldEnforceBlank(b, p, idx)
            THEN <<hardline>>
            ELSE <<>>)
    ELSE <<>>

\* mutant: index is advanced for EmptyStatement nodes too
callback_CountsEmpty(b, le, p, st) ==
  IF b[p].type = "EmptyStatement"
    THEN [index |-> st.index + 1, parts |-> st.parts]
    ELSE [index |-> st.index + 1,
          parts |-> st.parts \o <<print(b[p])>> \o separator(b, le, p, st.index)]

\* one call of the path.each callback, for the node at position p;
\* st holds the loop's `index` and `parts`
callback(b, le, p, st) ==
  IF b[p].type = "EmptyStatement"
    THEN st
    ELSE [index |-> st.index + 1,
          parts |-> st.parts \o <<print(b[p])>> \o separator(b, le, p, st.index)]

RECURSIVE each(_, _, _, _)
\* path.each from position p on
each(b, le, p, st) ==
  IF p > Len(b) THEN st ELSE each(b, le, p + 1, callback(b, le, p, st))

\* the function as a whole: the returned `parts`
printStatementSequence(b, le) ==
  each(b, le, 1, [index |-> 0, parts |-> <<>>]).parts

-----------------------------------------------------------------------------
(* printTryStatement and printCatchClause *)

\* A comment attached to the catch parameter:
\*   block               isBlockComment(comment)
\*   leading, trailing   comment.leading, comment.trailing
\*   newlineAfterEnd     hasNewline(options.originalText, locEnd(comment))
\*   newlineBeforeStart  hasNewline(options.originalText, locStart(comment),
\*                                  { backwards: true })
Comments ==
  {c \in [block : BOOLEAN, leading : BOOLEAN, trailing : BOOLEAN,
          newlineAfterEnd : BOOLEAN, newlineBeforeStart : BOOLEAN] :
     ~(c.leading /\ c.trailing)}

CommentLists == UNION {[1..n -> Comments] : n \in 0..MaxComments}

\* A TryStatement node:
\*   handler    node.handler is a CatchClause
\*   param      node.handler.param is bound
\*   comments   node.handler.param.comments
\*   finalizer  node.finalizer is a block
\* The parser gives every TryStatement a handler or a finalizer.
TryStatements ==
  {t \in [handler : BOOLEAN, param : BOOLEAN, comments : CommentLists,
          finalizer : BOOLEAN] :
     /\ t.handler \/ t.finalizer
     /\ t.param => t.handler
     /\ t.comments # <<>> => t.param}

\* the Doc builders; a Doc array is a sequence, nested arrays are concatenated
text(str) == [doc |-> "text", text |-> str]

softline == [doc |-> "softline"]

indent(contents) == [doc |-> "indent", contents |-> contents]

\* print("block"), print("param"), ...: the Doc of the child in a property
printProperty(property) == [doc |-> "print", property |-> property]

\* hasComment(node, fn): some comment attached to the node passes fn
hasComment(comments, fn) ==
  \E i \in 1..Len(comments) : fn[comments[i]]

\* mutant: a comment that is no block comment does not count
parameterCommentTest_BlockOnly(comment) ==
  \/ comment.leading /\ comment.newlineAfterEnd
  \/ comment.trailing /\ comment.newlineBeforeStart

\* the function printCatchClause passes to hasComment
parameterCommentTest(comment) ==
  \/ ~comment.block
  \/ comment.leading /\ comment.newlineAfterEnd
  \/ comment.trailing /\ comment.newlineBeforeStart

\* node is the TryStatement whose handler is printed
printCatchClause(node) ==
  IF node.param
    THEN LET parameterHasComments ==
               hasComment(node.comments,
                          [comment \in Comments |-> parameterCommentTest(comment)])
             param == printProperty("param")
         IN  <<hardline, text("catch ")>> \o
             (IF parameterHasComments
                THEN <<text("("), indent(<<softline, param>>), softline, text(") ")>>
                ELSE <<text("("), param, text(") ")>>) \o
             <<printProperty("body")>>
    ELSE <<hardline, text("catch "), printProperty("body")>>

\* mutant: `finally` follows the closing brace on the same line
printTryStatement_Cuddled(node) ==
  <<text("try "), printProperty("block")>> \o
  (IF node.handler
     THEN <<text(" ")>> \o printCatchClause(node)
     ELSE <<text("")>>) \o
  (IF node.finalizer
     THEN <<text(" finally "), printProperty("finalizer")>>
     ELSE <<text("")>>)

\* print("handler") is printCatchClause on node.handler
printTryStatement(node) ==
  <<text("try "), printProperty("block")>> \o
  (IF node.handler
     THEN <<text(" ")>> \o printCatchClause(node)
     ELSE <<text("")>>) \o
  (IF node.finalizer
     THEN <<hardline, text("finally "), printProperty("finalizer")>>
     ELSE <<text("")>>)

-----------------------------------------------------------------------------
(* Idle values of the variables a specification does not use *)

SeqIdle ==
  /\ body = <<>>
  /\ lineEmpty = <<>>
  /\ pc = "idle"
  /\ pos = 0
  /\ index = 0
  /\ parts = <<>>
  /\ calls = <<>>

RuleIdle ==
  /\ pairCurrent = Node("ExpressionStatement")
  /\ pairNext = Node("ExpressionStatement")
  /\ pcRule = "idle"
  /\ enforce = FALSE

TryIdle ==
  /\ tryNode = [handler |-> FALSE, param |-> FALSE, comments |-> <<>>,
                finalizer |-> TRUE]
  /\ pcTry = "idle"
  /\ tryDoc = <<>>

-----------------------------------------------------------------------------
(* SpecRule: one call of shouldEnforceBlankLineBetween *)

InitRule ==
  /\ pairCurrent \in AllStatements
  /\ pairNext \in AllStatements
  /\ pcRule = "call"
  /\ enforce = FALSE
  /\ SeqIdle
  /\ TryIdle

CallShouldEnforce ==
  /\ pcRule = "call"
  /\ enforce' = shouldEnforceBlankLineBetween(pairCurrent, pairNext)
  /\ pcRule' = "returned"
  /\ UNCHANGED <<pairCurrent, pairNext>>
  /\ UNCHANGED seqVars
  /\ UNCHANGED tryVars

NextRule == CallShouldEnforce

SpecRule == InitRule /\ [][NextRule]_vars

-----------------------------------------------------------------------------
(* Spec: the loop of printStatementSequence, one callback per step *)

Init ==
  /\ \E n \in 0..MaxLen :
       /\ body \in [1..n -> SequenceStatements]
       /\ lineEmpty \in [1..n -> BOOLEAN]
  /\ pc = "each"
  /\ pos = 1
  /\ index = 0
  /\ parts = <<>>
  /\ calls = <<>>
  /\ RuleIdle
  /\ TryIdle

\* the callback returns at once for an EmptyStatement
SkipEmptyStatement ==
  /\ pc = "each"
  /\ pos <= Len(body)
  /\ body[pos].type = "EmptyStatement"
  /\ LET st == callback(body, lineEmpty, pos, [index |-> index, parts |-> parts])
     IN  /\ index' = st.index
         /\ parts' = st.parts
  /\ pos' = pos + 1
  /\ UNCHANGED <<body, lineEmpty, pc, calls>>
  /\ UNCHANGED ruleVars
  /\ UNCHANGED tryVars

\* the callback prints the statement and its separator
PrintStatement ==
  /\ pc = "each"
  /\ pos <= Len(body)
  /\ body[pos].type # "EmptyStatement"
  /\ LET st == callback(body, lineEmpty, pos, [index |-> index, parts |-> parts])
     IN  /\ index' = st.index
         /\ parts' = st.parts
  /\ calls' = Append(calls, pos)
  /\ pos' = pos + 1
  /\ UNCHANGED <<body, lineEmpty, pc>>
  /\ UNCHANGED ruleVars
  /\ UNCHANGED tryVars

\* path.each is over: return parts
Return ==
  /\ pc = "each"
  /\ pos > Len(body)
  /\ pc' = "done"
  /\ UNCHANGED <<body, lineEmpty, pos, index, parts, calls>>
  /\ UNCHANGED ruleVars
  /\ UNCHANGED tryVars

Next == SkipEmptyStatement \/ PrintStatement \/ Return

Spec == Init /\ [][Next]_vars

-----------------------------------------------------------------------------
(* SpecTry: one call of printTryStatement *)

InitTry ==
  /\ tryNode \in TryStatements
  /\ pcTry = "call"
  /\ tryDoc = <<>>
  /\ SeqIdle
  /\ RuleIdle

CallPrintTryStatement ==
  /\ pcTry = "call"
  /\ tryDoc' = printTryStatement(tryNode)
  /\ pcTry' = "returned"
  /\ UNCHANGED tryNode
  /\ UNCHANGED seqVars
  /\ UNCHANGED ruleVars

NextTry == CallPrintTryStatement

SpecTry == InitTry /\ [][NextTry]_vars

-----------------------------------------------------------------------------
(* Properties of shouldEnforceBlankLineBetween, checked under SpecRule *)

\* the statement has a declarator whose initializer is a function
FunctionValued(s) ==
  /\ s.type = "VariableDeclaration"
  /\ \E i \in 1..Len(s.declarations) :
       s.declarations[i].init \in {"FunctionExpression", "ArrowFunctionExpression"}

\* the statement has a destructuring declarator
Destructuring(s) ==
  /\ s.type = "VariableDeclaration"
  /\ \E i \in 1..Len(s.declarations) :
       s.declarations[i].id \in {"ObjectPattern", "ArrayPattern"}

\* a paragraph statement as the style guide lists them
Paragraph(s) ==
  \/ s.type \in TopLevelDeclarationTypes
  \/ s.type \in BlockStatementTypes
  \/ FunctionValued(s)

\* C2: whenever current or next is a paragraph statement (top-level
\* declaration, block-form statement, function-valued variable declaration)
\* the function returns true, whatever the other statement is.
C2_ParagraphAlwaysIsolated ==
  (pcRule = "returned" /\ (Paragraph(pairCurrent) \/ Paragraph(pairNext)))
    => enforce = TRUE

\* a function-valued declaration followed by a return: only the paragraph
\* branch can answer true here
C2_Witness ==
  /\ pcRule = "returned"
  /\ FunctionValued(pairCurrent)
  /\ pairNext.type = "ReturnStatement"
  /\ enforce = TRUE

\* C3: when current is an import/export statement the function returns true
\* exactly when next is not an import/export statement, whatever else the
\* two statements are.
C3_ImportExportBoundary ==
  (pcRule = "returned" /\ pairCurrent.type \in ImportExportTypes)
    => (enforce <=> pairNext.type \notin ImportExportTypes)

\* two import/export statements of different types, no blank line enforced
C3_Witness ==
  /\ pcRule = "returned"
  /\ pairCurrent.type = "ExportAllDeclaration"
  /\ pairNext.type = "ImportDeclaration"
  /\ enforce = FALSE

\* C4: for two variable declarations the function returns false if and only
\* if they have the same keyword, neither has a destructuring declarator and
\* neither has a function-valued initializer.
C4_DeclarationBlock ==
  (/\ pcRule = "returned"
   /\ pairCurrent.type = "VariableDeclaration"
   /\ pairNext.type = "VariableDeclaration")
    => (enforce = FALSE <=>
          /\ pairCurrent.kind = pairNext.kind
          /\ ~Destructuring(pairCurrent) /\ ~Destructuring(pairNext)
          /\ ~FunctionValued(pairCurrent) /\ ~FunctionValued(pairNext))

\* same keyword, but the second declarator of next destructures: a blank line
C4_Witness ==
  /\ pcRule = "returned"
  /\ pairCurrent.type = "VariableDeclaration"
  /\ pairNext.type = "VariableDeclaration"
  /\ pairCurrent.kind = pairNext.kind
  /\ ~Destructuring(pairCurrent) /\ ~FunctionValued(pairCurrent)
  /\ Len(pairNext.declarations) = 2
  /\ pairNext.declarations[1].id = "Identifier"
  /\ pairNext.declarations[2].id = "ArrayPattern"
  /\ enforce = TRUE

-----------------------------------------------------------------------------
(* Properties of printStatementSequence, checked under Spec *)

NonEmpty(p) == body[p].type # "EmptyStatement"

NonEmptyPositions == {p \in 1..Len(body) : NonEmpty(p)}

\* the k-th non-Empty statement of the list
NthNonEmpty(k) ==
  CHOOSE p \in NonEmptyPositions :
    Cardinality({q \in NonEmptyPositions : q <= p}) = k

PrintedIndexes == {i \in 1..Len(parts) : parts[i].doc = "print"}

\* where the k-th rendered statement stands in the output
NthPrinted(k) ==
  CHOOSE i \in PrintedIndexes :
    Cardinality({m \in PrintedIndexes : m <= i}) = k

\* the number of hardlines that directly follow output index i
HardlinesAfter(i) ==
  Cardinality({m \in (i + 1)..Len(parts) :
                 \A n \in (i + 1)..m : parts[n] = hardline})

\* C1: between a non-Empty statement and the next non-Empty statement the
\* output holds only hardlines: one, plus one more exactly when the gap
\* oracle is true for the current statement or the rule enforces a blank line
\* between the two; so never three or more.
C1_SeparatorBetweenStatements ==
  pc = "done" =>
    /\ Cardinality(PrintedIndexes) = Cardinality(NonEmptyPositions)
    /\ \A k \in 1..Cardinality(NonEmptyPositions) :
         parts[NthPrinted(k)] = print(body[NthNonEmpty(k)])
    /\ \A k \in 1..(Cardinality(NonEmptyPositions) - 1) :
         LET cur == NthNonEmpty(k)
             nxt == NthNonEmpty(k + 1)
             i == NthPrinted(k)
             j == NthPrinted(k + 1)
             blank == \/ lineEmpty[cur]
                      \/ shouldEnforceBlankLineBetween(body[cur], body[nxt])
         IN  /\ \A m \in (i + 1)..(j - 1) : parts[m] = hardline
             /\ j - i - 1 = 1 + (IF blank THEN 1 ELSE 0)
             /\ j - i - 1 < 3

\* a blank line kept from the source where no rule enforces one, then a
\* boundary with a single hardline, then a blank line that is both in the
\* source and enforced
C1_Witness ==
  /\ pc = "done"
  /\ Len(body) = 3
  /\ body[1].type = "ExpressionStatement" /\ lineEmpty[1] = TRUE
  /\ body[2].type = "ExpressionStatement" /\ lineEmpty[2] = FALSE
  /\ body[3].type = "ReturnStatement"
  /\ Len(parts) = 6
  /\ HardlinesAfter(1) = 2
  /\ HardlinesAfter(4) = 1

\* the list without its EmptyStatement nodes, and the oracle's answers for
\* the nodes that stay
WithoutEmpty(s) ==
  [k \in 1..Cardinality(NonEmptyPositions) |-> s[NthNonEmpty(k)]]

\* C6: the output for a list equals the output for the list without its
\* EmptyStatement nodes, the oracle answering the same for the other nodes.
C6_EmptyStatementsIgnored ==
  pc = "done" =>
    parts = printStatementSequence(WithoutEmpty(body), WithoutEmpty(lineEmpty))

\* an EmptyStatement between two statements of one declaration block, the
\* oracle answering differently for the EmptyStatement
C6_Witness ==
  /\ pc = "done"
  /\ Len(body) = 3
  /\ body[1].type = "VariableDeclaration" /\ body[1] = body[3]
  /\ body[2].type = "EmptyStatement"
  /\ lineEmpty[1] = FALSE /\ lineEmpty[2] = TRUE
  /\ Len(parts) = 3

\* C7: no separator before the first rendered statement and none after the
\* last one, whatever EmptyStatement nodes precede or follow; without a
\* non-Empty statement the output is empty.
C7_NoLeadingOrTrailingSeparator ==
  pc = "done" =>
    IF NonEmptyPositions = {}
      THEN parts = <<>>
      ELSE /\ parts # <<>>
           /\ parts[1] = print(body[NthNonEmpty(1)])
           /\ parts[Len(parts)] =
                print(body[NthNonEmpty(Cardinality(NonEmptyPositions))])

\* EmptyStatement nodes before and after the only statement, blank lines in
\* the source after each node
C7_Witness ==
  /\ pc = "done"
  /\ Len(body) = 3
  /\ body[1].type = "EmptyStatement"
  /\ body[2].type = "IfStatement"
  /\ body[3].type = "EmptyStatement"
  /\ \A p \in 1..3 : lineEmpty[p] = TRUE
  /\ Len(parts) = 1

\* the oracle of a second run: a blank line follows a statement exactly when
\* the first run put two hardlines after it
SecondOracle ==
  [p \in 1..Len(body) |->
     /\ NonEmpty(p)
     /\ HardlinesAfter(
          NthPrinted(Cardinality({q \in NonEmptyPositions : q <= p}))) >= 2]

\* C8: run again on the same statements, with an oracle that reports the
\* blank lines the first run emitted, the function emits the same output,
\* with one or two hardlines at every boundary.
C8_SecondRunSame ==
  pc = "done" =>
    /\ printStatementSequence(body, SecondOracle) = parts
    /\ \A k \in 1..(Cardinality(NonEmptyPositions) - 1) :
         HardlinesAfter(NthPrinted(k)) \in {1, 2}

\* the first run collapsed nothing at the first boundary and emitted a blank
\* line at the second, where the source had none
C8_Witness ==
  /\ pc = "done"
  /\ Len(body) = 3
  /\ \A p \in 1..3 : NonEmpty(p)
  /\ lineEmpty[1] = FALSE /\ lineEmpty[2] = FALSE
  /\ SecondOracle[1] = FALSE /\ SecondOracle[2] = TRUE

-----------------------------------------------------------------------------
(* Properties of printTryStatement / printCatchClause, checked under SpecTry *)

IndexesOf(d) == {i \in 1..Len(tryDoc) : tryDoc[i] = d}

\* C9: `catch` is in the output when there is a handler and `finally` when
\* there is a finalizer, and each is directly preceded by a hardline,
\* whatever the parameter and its comments are.
C9_ClauseKeywordOnOwnLine ==
  pcTry = "returned" =>
    /\ tryNode.handler => IndexesOf(text("catch ")) # {}
    /\ tryNode.finalizer => IndexesOf(text("finally ")) # {}
    /\ \A i \in IndexesOf(text("catch ")) \cup IndexesOf(text("finally ")) :
         i > 1 /\ tryDoc[i - 1] = hardline

\* a finalizer without a handler
C9_Witness ==
  /\ pcTry = "returned"
  /\ ~tryNode.handler
  /\ tryNode.finalizer
  /\ tryDoc = <<text("try "), printProperty("block"), text(""),
                hardline, text("finally "), printProperty("finalizer")>>

\* the Docs between `catch ` and the clause's body
ParameterDoc ==
  LET i == CHOOSE n \in IndexesOf(text("catch ")) : TRUE
      j == CHOOSE n \in IndexesOf(printProperty("body")) : TRUE
  IN  SubSeq(tryDoc, i + 1, j - 1)

\* some comment is not a block comment, or is a leading block comment with
\* a newline after its end, or a trailing one with a newline before its start
BreakingComment ==
  \E i \in 1..Len(tryNode.comments) :
    LET c == tryNode.comments[i]
    IN  \/ c.block = FALSE
        \/ c.leading = TRUE /\ c.newlineAfterEnd = TRUE
        \/ c.trailing = TRUE /\ c.newlineBeforeStart = TRUE

\* C10: a bound catch parameter is rendered "(" indent(softline, param)
\* softline ") " exactly when one of its comments is not a block comment, or
\* is a leading block comment followed by a newline, or a trailing block
\* comment preceded by one; otherwise it is rendered "(" param ") ".
C10_CatchParameterWrapping ==
  (pcTry = "returned" /\ tryNode.param) =>
    ParameterDoc =
      IF BreakingComment
        THEN <<text("("), indent(<<softline, printProperty("param")>>),
               softline, text(") ")>>
        ELSE <<text("("), printProperty("param"), text(") ")>>

\* a block comment that breaks nothing, then a line comment
C10_Witness ==
  /\ pcTry = "returned"
  /\ tryNode.param
  /\ Len(tryNode.comments) = 2
  /\ tryNode.comments[1].block /\ tryNode.comments[1].leading
  /\ ~tryNode.comments[1].newlineAfterEnd
  /\ ~tryNode.comments[2].block /\ tryNode.comments[2].trailing
  /\ Len(ParameterDoc) = 4

-----------------------------------------------------------------------------
(* Further properties of shouldEnforceBlankLineBetween, checked under SpecRule *)

\* a return statement or a statement of a kind no classification names
Unclassified(s) ==
  /\ s.type \notin ImportExportTypes
  /\ s.type \notin TopLevelDeclarationTypes
  /\ s.type \notin BlockStatementTypes
  /\ s.type # "VariableDeclaration"

\* C11: the function answers for every pair, and when neither statement is
\* an import/export, a variable declaration, a top-level declaration or a
\* block-form statement the answer is false.
C11_UnclassifiedPairsGetNoBlank ==
  pcRule = "returned" =>
    /\ enforce \in BOOLEAN
    /\ (Unclassified(pairCurrent) /\ Unclassified(pairNext)) => enforce = FALSE

\* a statement of an unnamed kind directly before a return
C11_Witness ==
  /\ pcRule = "returned"
  /\ pairCurrent.type = "ThrowStatement"
  /\ pairNext.type = "ReturnStatement"
  /\ enforce = FALSE

-----------------------------------------------------------------------------
(* Further properties of printStatementSequence, checked under Spec *)

\* the boundaries of the list: k is a boundary when the k-th non-Empty
\* statement has a non-Empty statement after it
Boundaries == 1..(Cardinality(NonEmptyPositions) - 1)

\* EmptyStatement nodes lie between the k-th non-Empty statement and the next
EmptyBetween(k) == NthNonEmpty(k + 1) > NthNonEmpty(k) + 1

\* the rule enforces a blank line at boundary k
EnforcedAt(k) ==
  shouldEnforceBlankLineBetween(body[NthNonEmpty(k)], body[NthNonEmpty(k + 1)])

\* C12 as stated: at every boundary the gap is the oracle's answer for the
\* last statement before B in the unfiltered list, so a blank line after an
\* intervening EmptyStatement gives a blank line between A and B.
C12_Original ==
  pc = "done" =>
    \A k \in Boundaries :
      HardlinesAfter(NthPrinted(k)) =
        1 + (IF lineEmpty[NthNonEmpty(k + 1) - 1] \/ EnforcedAt(k) THEN 1 ELSE 0)

\* C12 as amended: at a boundary with EmptyStatement nodes between A and B
\* the gap is the oracle's answer for A itself; a blank line that follows
\* only an intervening EmptyStatement gives no blank line between A and B.
C12_GapLookedUpOnCurrentNode ==
  pc = "done" =>
    \A k \in Boundaries :
      EmptyBetween(k) =>
        HardlinesAfter(NthPrinted(k)) =
          1 + (IF lineEmpty[NthNonEmpty(k)] \/ EnforcedAt(k) THEN 1 ELSE 0)

\* A, EmptyStatement, B with a blank line in the source only after the
\* EmptyStatement and nothing enforced: a single hardline between A and B
C12_Witness ==
  /\ pc = "done"
  /\ Len(body) = 3
  /\ body[1].type = "ExpressionStatement"
  /\ body[2].type = "EmptyStatement"
  /\ body[3].type = "ExpressionStatement"
  /\ lineEmpty[1] = FALSE /\ lineEmpty[2] = TRUE
  /\ parts = <<print(body[1]), hardline, print(body[3])>>

\* the callback is about to be called for a non-Empty statement
AtPrintCall == pc = "each" /\ pos <= Len(body) /\ NonEmpty(pos)

\* C13: print() has been called once for each non-Empty statement the loop
\* has passed and for no EmptyStatement, in the order of the list, and the
\* rendered forms stand in the output in that order; at each call index is
\* the position of the current statement in the filtered list, so
\* statements[index + 1] is the nearest following non-Empty statement
\* whenever there is one.
C13_OneCallPerStatementInOrder ==
  pc \in {"each", "done"} =>
    /\ \A i \in 1..Len(calls) : \A j \in 1..Len(calls) :
         i < j => calls[i] < calls[j]
    /\ {calls[i] : i \in 1..Len(calls)} =
         {p \in NonEmptyPositions : p < pos}
    /\ Cardinality(PrintedIndexes) = Len(calls)
    /\ \A i \in 1..Len(calls) : parts[NthPrinted(i)] = print(body[calls[i]])
    /\ AtPrintCall =>
         /\ index + 1 = Cardinality({q \in NonEmptyPositions : q <= pos})
         /\ \A q \in NonEmptyPositions :
              (q > pos /\ \A r \in (pos + 1)..(q - 1) : ~NonEmpty(r))
                => nextNode(body, index) = q

\* A, EmptyStatement, B printed: two calls, for A and for B, in that order
C13_Witness ==
  /\ pc = "done"
  /\ Len(body) = 3
  /\ NonEmpty(1) /\ ~NonEmpty(2) /\ NonEmpty(3)
  /\ body[1] # body[3]
  /\ calls = <<1, 3>>
  /\ index = 2
  /\ parts[1] = print(body[1])
  /\ parts[Len(parts)] = print(body[3])

-----------------------------------------------------------------------------
(* The seven-rule cascade of the decision engine, checked under SpecRule *)

ImportExport(s) == s.type \in ImportExportTypes

\* both are variable declarations of one keyword, neither destructuring,
\* neither function-valued
SameDeclarationBlock(a, b) ==
  /\ a.type = "VariableDeclaration" /\ b.type = "VariableDeclaration"
  /\ ~Destructuring(a) /\ ~Destructuring(b)
  /\ a.kind = b.kind
  /\ ~FunctionValued(a) /\ ~FunctionValued(b)

\* rules 1 to 7 in order, the first rule that matches decides
requiresBlank(a, b) ==
  CASE ImportExport(a) /\ ~ImportExport(b) -> TRUE
    [] ImportExport(a) /\ ImportExport(b) -> FALSE
    [] ~ImportExport(a) /\ SameDeclarationBlock(a, b) -> FALSE
    [] /\ ~ImportExport(a) /\ ~SameDeclarationBlock(a, b)
       /\ a.type = "VariableDeclaration"
       /\ b.type # "ReturnStatement" -> TRUE
    [] /\ ~ImportExport(a) /\ ~SameDeclarationBlock(a, b)
       /\ a.type # "VariableDeclaration"
       /\ b.type = "VariableDeclaration" -> TRUE
    [] OTHER -> Paragraph(a) \/ Paragraph(b)

\* C14: for every pair the function returns what the seven-rule cascade
\* returns, and its seventh and eighth branch never decide: whenever one of
\* them would match, an earlier branch has returned.
C14_EightBranchesEqualSevenRules ==
  pcRule = "returned" =>
    /\ enforce = requiresBlank(pairCurrent, pairNext)
    /\ decidingBranch(pairCurrent, pairNext) \notin {7, 8}

\* a block-form statement before a return: the conditions of the last two
\* branches hold, and the sixth branch has decided
C14_Witness ==
  /\ pcRule = "returned"
  /\ pairCurrent.type = "IfStatement"
  /\ pairNext.type = "ReturnStatement"
  /\ isReturnLikeStatement(pairNext) /\ isParagraphStatement(pairCurrent)
  /\ isReturnLikeStatement(pairNext) /\ isBlockStatement(pairCurrent)
  /\ decidingBranch(pairCurrent, pairNext) = 6
  /\ enforce = TRUE

====
